---- MODULE Spec2Model ----
(***************************************************************************)
(* Model of perplexity/lib/temporal_summary.py: the function               *)
(* synthesize_temporal_summary and the caller pattern of                   *)
(* examples/temporal_summary_demo.py (build a record, call, build the     *)
(* next record, call again).                                               *)
(*                                                                         *)
(* Python values are tagged records: PyStr(s), PyInt(n), PyNone.  A dict   *)
(* is a function whose DOMAIN is the set of keys present.  The float score *)
(* is kept in hundredths (0.65 is 65); the arithmetic of line 89 is done   *)
(* in exact rationals and rounded half-even to two decimals, as round().   *)
(* A raised exception is the outcome [status |-> "raised", error |-> ..].  *)
(***************************************************************************)
EXTENDS Integers, Sequences, FiniteSets, TLC

VARIABLES pc, record, summary

vars == <<pc, record, summary>>

(* Longest generated text of past_state, future_constraint, final_state *)
MaxLen == 3

------------------------------------------------------------------------------
(* Python values *)

PyStr(s) == [t |-> "str", s |-> s, n |-> 0]
PyInt(n) == [t |-> "int", s |-> "", n |-> n]
PyNone == [t |-> "none", s |-> "", n |-> 0]

(* marks a key the caller leaves out of the dict literal *)
Absent == [t |-> "absent", s |-> "", n |-> 0]

Fields == {"past_state", "future_constraint", "final_state", "seed", "iterations", "notes"}

(* bool(v): the truth value `and` / `or` test *)
Truthy(v) ==
    CASE v.t = "str" -> v.s # ""
      [] v.t = "int" -> v.n # 0
      [] OTHER -> FALSE

(* len(v) is defined for str; int and PyNone raise TypeError *)
HasLen(v) == v.t = "str"

(* `v < 100`, `v > 0` are defined for int; str and PyNone raise TypeError *)
Orderable(v) == v.t = "int"

(* record.get(k) without a default: the mutant of Get *)
GetNoDefault(d, k, default) == IF k \in DOMAIN d THEN d[k] ELSE PyNone

(* record.get(k, default) *)
Get(d, k, default) == IF k \in DOMAIN d THEN d[k] ELSE default

------------------------------------------------------------------------------
(* Formatting of an int inside an f-string *)

Digit(d) ==
    CASE d = 0 -> "0" [] d = 1 -> "1" [] d = 2 -> "2" [] d = 3 -> "3"
      [] d = 4 -> "4" [] d = 5 -> "5" [] d = 6 -> "6" [] d = 7 -> "7"
      [] d = 8 -> "8" [] d = 9 -> "9"

RECURSIVE NatToStr(_)
NatToStr(n) == IF n < 10 THEN Digit(n) ELSE NatToStr(n \div 10) \o Digit(n % 10)

IntToStr(n) == IF n < 0 THEN "-" \o NatToStr(0 - n) ELSE NatToStr(n)

------------------------------------------------------------------------------
(* Consistency score, lines 85-91 *)

(* round(num/den, 2) in hundredths, ties to even *)
Round2(num, den) ==
    LET q == (100 * num) \div den
        r == (100 * num) % den
    IN  IF 2 * r > den THEN q + 1
        ELSE IF 2 * r = den THEN (IF q % 2 = 0 THEN q ELSE q + 1)
        ELSE q

len_sum(past_state, future_constraint, final_state) ==
    Len(past_state.s) + Len(future_constraint.s) + Len(final_state.s)

(* the precondition of line 85 holds and a len() of line 87 raises *)
ScoreRaises(past_state, future_constraint, final_state) ==
    /\ Truthy(past_state) /\ Truthy(future_constraint) /\ Truthy(final_state)
    /\ \E v \in {past_state, future_constraint, final_state} : ~HasLen(v)

(* mutant: modulus 8 instead of 7 *)
consistency_score_mod8(past_state, future_constraint, final_state) ==
    IF Truthy(past_state) /\ Truthy(future_constraint) /\ Truthy(final_state)
    THEN Round2(350 + 35 * (len_sum(past_state, future_constraint, final_state) % 8), 700)
    ELSE 0

(* mutant: the precondition tests only past_state *)
consistency_score_one_field(past_state, future_constraint, final_state) ==
    IF Truthy(past_state)
    THEN Round2(350 + 35 * (len_sum(past_state, future_constraint, final_state) % 7), 700)
    ELSE 0

(* mutant: the docstring's value, a fixed 0.85 for a complete record *)
consistency_score_fixed(past_state, future_constraint, final_state) ==
    IF Truthy(past_state) /\ Truthy(future_constraint) /\ Truthy(final_state)
    THEN 85
    ELSE 0

(* 0.5 + 0.35 * ((len_sum % 7) / 7.0) = (350 + 35 * (len_sum % 7)) / 700 *)
consistency_score(past_state, future_constraint, final_state) ==
    IF Truthy(past_state) /\ Truthy(future_constraint) /\ Truthy(final_state)
    THEN Round2(350 + 35 * (len_sum(past_state, future_constraint, final_state) % 7), 700)
    ELSE 0

------------------------------------------------------------------------------
(* Convergence notes, lines 94-105 *)

NoIterationsText == "No iterations recorded; unable to assess convergence."

EarlyText(i) ==
    "Simulation ran for " \o i
    \o " iterations. Early termination detected; results may not represent full convergence."

ModerateText(i) ==
    "Simulation completed " \o i \o " iterations with moderate convergence characteristics."

GoodText(i) ==
    "Simulation completed " \o i
    \o " iterations with good convergence behavior. Stable solution reached."

(* mutant: the thresholds compared with <= *)
base_notes_inclusive(iterations) ==
    IF iterations = 0 THEN NoIterationsText
    ELSE IF iterations <= 100 THEN EarlyText(IntToStr(iterations))
    ELSE IF iterations <= 1000 THEN ModerateText(IntToStr(iterations))
    ELSE GoodText(IntToStr(iterations))

(* mutant: the first branch tests iterations <= 0 *)
base_notes_nonpositive(iterations) ==
    IF iterations <= 0 THEN NoIterationsText
    ELSE IF iterations < 100 THEN EarlyText(IntToStr(iterations))
    ELSE IF iterations < 1000 THEN ModerateText(IntToStr(iterations))
    ELSE GoodText(IntToStr(iterations))

(* the if / elif chain of lines 94-101, for an int *)
base_notes(iterations) ==
    IF iterations = 0 THEN NoIterationsText
    ELSE IF iterations < 100 THEN EarlyText(IntToStr(iterations))
    ELSE IF iterations < 1000 THEN ModerateText(IntToStr(iterations))
    ELSE GoodText(IntToStr(iterations))

SeedSuffix(seed) == " (Reproducible with seed=" \o IntToStr(seed) \o ")"

(* mutant: the suffix test is seed >= 0 *)
add_seed_nonnegative(notes, seed) ==
    IF seed >= 0 THEN notes \o SeedSuffix(seed) ELSE notes

(* lines 104-105 *)
add_seed(notes, seed) ==
    IF seed > 0 THEN notes \o SeedSuffix(seed) ELSE notes

------------------------------------------------------------------------------
(* Disclaimer, lines 108-114 *)

disclaimer ==
    "DISCLAIMER: This summary is generated from classical computational inference. "
    \o "It does NOT represent physical retrocausality or actual backward time propagation. "
    \o "All analysis is performed using standard forward-time simulation with post-hoc "
    \o "constraint evaluation. Results should be interpreted as theoretical exploration "
    \o "of time-symmetric scenarios, not as evidence of acausal phenomena."

------------------------------------------------------------------------------
(* Experiment details, lines 117-124 *)

(* v or placeholder *)
Or(v, placeholder) == IF Truthy(v) THEN v ELSE PyStr(placeholder)

(* mutant: every field goes through `or`, one placeholder for all *)
experiment_details_uniform(past_state, future_constraint, final_state, seed, iterations, notes) ==
    [past_state |-> Or(past_state, "(not specified)"),
     future_constraint |-> Or(future_constraint, "(not specified)"),
     final_state |-> Or(final_state, "(not specified)"),
     seed |-> Or(seed, "(not specified)"),
     iterations |-> Or(iterations, "(not specified)"),
     notes |-> Or(notes, "(not specified)")]

experiment_details(past_state, future_constraint, final_state, seed, iterations, notes) ==
    [past_state |-> Or(past_state, "(not specified)"),
     future_constraint |-> Or(future_constraint, "(not specified)"),
     final_state |-> Or(final_state, "(not specified)"),
     seed |-> seed,
     iterations |-> iterations,
     notes |-> Or(notes, "(none)")]

------------------------------------------------------------------------------
(* The function, lines 36-131 *)

Raised(e) == [status |-> "raised", error |-> e]

NoSummary == [status |-> "none"]

ExperimentSummary(score, notes, disc, details) ==
    [status |-> "ok",
     consistency_score |-> score,
     convergence_notes |-> notes,
     disclaimer |-> disc,
     experiment_details |-> details]

synthesize_temporal_summary(rec) ==
    LET past_state == Get(rec, "past_state", PyStr(""))
        future_constraint == Get(rec, "future_constraint", PyStr(""))
        final_state == Get(rec, "final_state", PyStr(""))
        seed == Get(rec, "seed", PyInt(0))
        iterations == Get(rec, "iterations", PyInt(0))
        notes == Get(rec, "notes", PyStr(""))
    IN  IF ScoreRaises(past_state, future_constraint, final_state)
        THEN Raised("TypeError")
        ELSE IF ~Orderable(iterations)
        THEN Raised("TypeError")
        ELSE IF ~Orderable(seed)
        THEN Raised("TypeError")
        ELSE ExperimentSummary(
                 consistency_score(past_state, future_constraint, final_state),
                 add_seed(base_notes(iterations.n), seed.n),
                 disclaimer,
                 experiment_details(past_state, future_constraint, final_state,
                                    seed, iterations, notes))

------------------------------------------------------------------------------
(* Callers' records *)

experiment_1 ==
    [past_state |-> PyStr("quantum_system_ground_state"),
     future_constraint |-> PyStr("excited_state_target_energy_5.2eV"),
     final_state |-> PyStr("excited_state_achieved_energy_5.18eV"),
     seed |-> PyInt(42),
     iterations |-> PyInt(1500),
     notes |-> PyStr("Standard perturbation analysis with time-symmetric boundary conditions")]

experiment_2 ==
    [past_state |-> PyStr("initial"),
     future_constraint |-> PyStr("target"),
     final_state |-> PyStr("result"),
     seed |-> PyInt(123),
     iterations |-> PyInt(50),
     notes |-> PyStr("Quick test run")]

experiment_3 ==
    [past_state |-> PyStr("classical_harmonic_oscillator_at_rest"),
     future_constraint |-> PyStr("maximum_displacement_at_t_10s"),
     final_state |-> PyStr("oscillator_at_maximum_displacement"),
     seed |-> PyInt(2024),
     iterations |-> PyInt(10000),
     notes |-> PyStr("Extended simulation for high-precision convergence analysis")]

docstring_record ==
    [past_state |-> PyStr("initial_configuration_A"),
     future_constraint |-> PyStr("target_state_B"),
     final_state |-> PyStr("achieved_state_B_prime"),
     seed |-> PyInt(42),
     iterations |-> PyInt(1000),
     notes |-> PyStr("Test run with standard parameters")]

ExampleRecords == {experiment_1, experiment_2, experiment_3, docstring_record}

RECURSIVE Rep(_)
Rep(k) == IF k = 0 THEN "" ELSE "x" \o Rep(k - 1)

Texts == {PyStr(Rep(k)) : k \in 0..MaxLen}

PastStates == Texts \cup {Absent, PyNone, PyInt(5)}
FutureConstraints == Texts \cup {Absent}
FinalStates == Texts \cup {Absent}
Seeds == {Absent, PyInt(0 - 3), PyInt(0), PyInt(1), PyInt(42), PyNone, PyStr("x")}
Iterations == {Absent, PyInt(0 - 5), PyInt(0), PyInt(1), PyInt(99), PyInt(100), PyInt(999),
               PyInt(1000), PyInt(1500), PyNone, PyStr("5")}
Notes == {Absent, PyStr(""), PyStr("n")}

(* the dict literal with the keys whose value is given *)
Dict(vals) == [k \in {f \in Fields : vals[f] # Absent} |-> vals[k]]

EmptyDict == Dict([k \in Fields |-> Absent])

------------------------------------------------------------------------------
(* State machine of a caller: write a record, call, go on to the next *)

Init ==
    /\ pc = "idle"
    /\ record = EmptyDict
    /\ summary = NoSummary

(* the caller writes a record *)
NewRecord ==
    /\ pc = "idle"
    /\ \E p \in PastStates, f \in FutureConstraints, fs \in FinalStates,
          sd \in Seeds, it \in Iterations, nt \in Notes :
           record' = Dict([past_state |-> p, future_constraint |-> f, final_state |-> fs,
                           seed |-> sd, iterations |-> it, notes |-> nt])
    /\ pc' = "built"
    /\ UNCHANGED summary

(* the caller writes one of the literal records of the demo or the docstring *)
NewExample ==
    /\ pc = "idle"
    /\ \E r \in ExampleRecords : record' = r
    /\ pc' = "built"
    /\ UNCHANGED summary

(* summary = synthesize_temporal_summary(record), a first or a repeated call *)
Call ==
    /\ pc \in {"built", "called"}
    /\ summary' = synthesize_temporal_summary(record)
    /\ pc' = "called"
    /\ UNCHANGED record

(* the caller is done with this record and goes on to the next *)
Finish ==
    /\ pc = "called"
    /\ pc' = "idle"
    /\ record' = EmptyDict
    /\ summary' = NoSummary

Next == NewRecord \/ NewExample \/ Call \/ Finish

Spec == Init /\ [][Next]_vars

------------------------------------------------------------------------------
(* Vocabulary of the properties *)

(* every key present holds a value of the type ExperimentRecord declares *)
WellTyped(rec) ==
    \A k \in DOMAIN rec :
        rec[k].t = (IF k \in {"seed", "iterations"} THEN "int" ELSE "str")

(* the text of a field, "" when the key is absent *)
TextOf(rec, k) == IF k \in DOMAIN rec THEN rec[k].s ELSE ""

(* the number of a field, 0 when the key is absent *)
NumOf(rec, k) == IF k \in DOMAIN rec THEN rec[k].n ELSE 0

EmptyOrAbsent(rec, k) == k \notin DOMAIN rec \/ rec[k] = PyStr("")

StateFields == {"past_state", "future_constraint", "final_state"}

LenSumOf(rec) ==
    Len(TextOf(rec, "past_state")) + Len(TextOf(rec, "future_constraint"))
    + Len(TextOf(rec, "final_state"))

Returned == pc = "called" /\ summary.status = "ok"

(* a sentence alone or followed by the seed suffix *)
WithOrWithoutSuffix(sentence, seed) ==
    {sentence, sentence \o " (Reproducible with seed=" \o ToString(seed) \o ")"}

------------------------------------------------------------------------------
(* C1: for a well-typed record the returned score is 0.0 when any of       *)
(* past_state, future_constraint, final_state is empty or absent, and      *)
(* otherwise 0.50 + 0.05 * (len_sum mod 7).                                *)
C1_ScoreFormula ==
    (Returned /\ WellTyped(record)) =>
        summary.consistency_score =
            IF \E k \in StateFields : EmptyOrAbsent(record, k)
            THEN 0
            ELSE 50 + 5 * (LenSumOf(record) % 7)

(* a record of three non-empty texts of combined length 9 scored 0.6 *)
C1_Witness ==
    /\ Returned /\ WellTyped(record)
    /\ \A k \in StateFields : ~EmptyOrAbsent(record, k)
    /\ LenSumOf(record) = 9
    /\ summary.consistency_score = 60

(* C2: every returned score lies in 0.0 .. 0.85; it is one of 0.5, 0.55,   *)
(* 0.6, 0.65, 0.7, 0.75, 0.8 when the three state fields are non-empty     *)
(* texts and exactly 0.0 otherwise.                                        *)
C2_ScoreRange ==
    Returned =>
        /\ summary.consistency_score >= 0 /\ summary.consistency_score <= 85
        /\ IF \A k \in StateFields :
                  k \in DOMAIN record /\ record[k].t = "str" /\ record[k].s # ""
           THEN summary.consistency_score \in {50, 55, 60, 65, 70, 75, 80}
           ELSE summary.consistency_score = 0

(* the largest score, 0.8, is returned (len_sum mod 7 = 6) *)
C2_Witness ==
    /\ Returned
    /\ LenSumOf(record) % 7 = 6
    /\ summary.consistency_score = 80

(* C3: the base sentence follows the thresholds: 0 gives the               *)
(* no-iterations sentence, 1..99 the early-termination sentence, 100..999  *)
(* the moderate sentence, 1000 and more the good-convergence sentence,     *)
(* each non-zero case with the value of iterations in it.                  *)
C3_Thresholds ==
    (Returned /\ WellTyped(record)) =>
        LET i == NumOf(record, "iterations")
            sd == NumOf(record, "seed")
            n == summary.convergence_notes
        IN  /\ i = 0 =>
                 n \in WithOrWithoutSuffix(
                     "No iterations recorded; unable to assess convergence.", sd)
            /\ (0 < i /\ i < 100) =>
                 n \in WithOrWithoutSuffix(
                     "Simulation ran for " \o ToString(i) \o " iterations. Early termination "
                     \o "detected; results may not represent full convergence.", sd)
            /\ (100 <= i /\ i < 1000) =>
                 n \in WithOrWithoutSuffix(
                     "Simulation completed " \o ToString(i)
                     \o " iterations with moderate convergence characteristics.", sd)
            /\ i >= 1000 =>
                 n \in WithOrWithoutSuffix(
                     "Simulation completed " \o ToString(i) \o " iterations with good "
                     \o "convergence behavior. Stable solution reached.", sd)

(* the boundary 100 gave the moderate sentence *)
C3_Witness ==
    /\ Returned /\ WellTyped(record)
    /\ NumOf(record, "iterations") = 100
    /\ NumOf(record, "seed") = 0
    /\ summary.convergence_notes =
         "Simulation completed 100 iterations with moderate convergence characteristics."

(* C4: convergence_notes is the base sentence followed by exactly one      *)
(* " (Reproducible with seed={seed})" when seed > 0 and the base sentence  *)
(* alone when seed <= 0 or absent, in every iterations branch.             *)
C4_SeedSuffix ==
    (Returned /\ WellTyped(record)) =>
        LET sd == NumOf(record, "seed")
            base == base_notes(NumOf(record, "iterations"))
        IN  summary.convergence_notes =
                IF sd > 0
                THEN base \o " (Reproducible with seed=" \o ToString(sd) \o ")"
                ELSE base

(* the suffix on the iterations == 0 branch *)
C4_Witness ==
    /\ Returned /\ WellTyped(record)
    /\ "iterations" \notin DOMAIN record
    /\ NumOf(record, "seed") = 42
    /\ summary.convergence_notes =
         "No iterations recorded; unable to assess convergence. (Reproducible with seed=42)"

(* C5: experiment_details has exactly the six keys; the three state fields *)
(* are echoed, or "(not specified)" when empty or absent; notes is echoed, *)
(* or "(none)" when empty or absent; seed and iterations are echoed as     *)
(* numbers, 0 when absent.                                                 *)
C5_DetailsEcho ==
    (Returned /\ WellTyped(record)) =>
        LET d == summary.experiment_details
        IN  /\ DOMAIN d = Fields
            /\ \A k \in StateFields :
                 d[k] = IF EmptyOrAbsent(record, k)
                        THEN PyStr("(not specified)") ELSE record[k]
            /\ d["notes"] = IF EmptyOrAbsent(record, "notes")
                            THEN PyStr("(none)") ELSE record["notes"]
            /\ d["seed"] = PyInt(NumOf(record, "seed"))
            /\ d["iterations"] = PyInt(NumOf(record, "iterations"))

(* absent notes, empty past_state and seed 0 echoed as (none),             *)
(* (not specified) and 0                                                   *)
C5_Witness ==
    /\ Returned /\ WellTyped(record)
    /\ "notes" \notin DOMAIN record
    /\ "past_state" \in DOMAIN record /\ record["past_state"] = PyStr("")
    /\ "seed" \in DOMAIN record /\ record["seed"] = PyInt(0)
    /\ summary.experiment_details["notes"] = PyStr("(none)")
    /\ summary.experiment_details["past_state"] = PyStr("(not specified)")
    /\ summary.experiment_details["seed"] = PyInt(0)

(* C6 as stated: no call raises, whatever the record holds. *)
C6_NeverFails ==
    pc = "called" => summary.status = "ok"

(* C6 amended: a call with a well-typed record (absent keys, empty texts,  *)
(* zero and negative numbers included) raises nothing and returns the four *)
(* fields; in the model's values a call raises TypeError exactly when      *)
(* seed or iterations is present and not an int, or the three state fields *)
(* are all truthy and one of them is not a text.                           *)
C6_TotalOnWellTyped ==
    pc = "called" =>
        /\ WellTyped(record) =>
             /\ summary.status = "ok"
             /\ DOMAIN summary = {"status", "consistency_score", "convergence_notes",
                                  "disclaimer", "experiment_details"}
             /\ summary.disclaimer = disclaimer
        /\ summary.status # "ok" =>
             /\ summary = Raised("TypeError")
             /\ \/ \E k \in {"seed", "iterations"} \cap DOMAIN record : record[k].t # "int"
                \/ /\ \A k \in StateFields : k \in DOMAIN record /\ Truthy(record[k])
                   /\ \E k \in StateFields : record[k].t # "str"
        /\ (\E k \in {"seed", "iterations"} \cap DOMAIN record : record[k].t # "int")
             => summary.status = "raised"
        /\ (/\ \A k \in StateFields : k \in DOMAIN record /\ Truthy(record[k])
            /\ \E k \in StateFields : record[k].t # "str")
             => summary.status = "raised"

(* a record with every key absent returned a complete summary *)
C6_Witness ==
    /\ Returned
    /\ record = EmptyDict
    /\ summary.consistency_score = 0
    /\ summary.experiment_details["seed"] = PyInt(0)

(* C7 as stated: experiment_1 has len_sum 98, remainder 0, score 0.5 and   *)
(* the good-convergence sentence with the seed suffix.                     *)
C7_Example1AsStated ==
    (Returned /\ record = experiment_1) =>
        /\ LenSumOf(record) = 98
        /\ LenSumOf(record) % 7 = 0
        /\ summary.consistency_score = 50
        /\ summary.convergence_notes =
             "Simulation completed 1500 iterations with good convergence behavior. "
             \o "Stable solution reached. (Reproducible with seed=42)"

(* C7 amended: experiment_1 has len_sum 96 (27 + 33 + 36), remainder 5,    *)
(* score 0.75 and the good-convergence sentence with the seed suffix.      *)
C7_Example1 ==
    (Returned /\ record = experiment_1) =>
        /\ Len(record["past_state"].s) = 27
        /\ Len(record["future_constraint"].s) = 33
        /\ Len(record["final_state"].s) = 36
        /\ LenSumOf(record) = 96
        /\ LenSumOf(record) % 7 = 5
        /\ summary.consistency_score = 75
        /\ summary.convergence_notes =
             "Simulation completed 1500 iterations with good convergence behavior. "
             \o "Stable solution reached. (Reproducible with seed=42)"

(* the call with experiment_1 returned *)
C7_Witness ==
    /\ Returned
    /\ record = experiment_1
    /\ summary.consistency_score = 75

(* C8: the docstring's record returns consistency_score 0.85. *)
C8_DocstringExample ==
    (Returned /\ record = docstring_record) => summary.consistency_score = 85

(* C10: a negative iterations raises nothing and gives the                 *)
(* early-termination sentence with the negative value in it; the early     *)
(* sentence is produced exactly when iterations # 0 and iterations < 100.  *)
C10_NegativeIterations ==
    (pc = "called" /\ WellTyped(record)) =>
        LET i == NumOf(record, "iterations")
            early == WithOrWithoutSuffix(
                         "Simulation ran for " \o ToString(i) \o " iterations. Early "
                         \o "termination detected; results may not represent full convergence.",
                         NumOf(record, "seed"))
        IN  /\ i < 0 => summary.status = "ok"
            /\ summary.status = "ok" =>
                 ((i # 0 /\ i < 100) <=> summary.convergence_notes \in early)

(* iterations = -5 gave the early-termination sentence *)
C10_Witness ==
    /\ Returned /\ WellTyped(record)
    /\ NumOf(record, "iterations") = 0 - 5
    /\ NumOf(record, "seed") = 0 - 3
    /\ summary.convergence_notes =
         "Simulation ran for -5 iterations. Early termination detected; "
         \o "results may not represent full convergence."

====
